---- MODULE Spec2Model ----
(***************************************************************************)
(* Model of the article monitor: the lifecycle store of                    *)
(* src/lib/search-service.ts (memory cache + two JSON files) and the       *)
(* multi-source aggregation of the research agent route.                   *)
(*                                                                         *)
(* Time is counted in days.  An optional value (a field that may be        *)
(* missing, a file that may not exist, a record that may be null) is a     *)
(* sequence of length 0 or 1 (files, records) or a set of at most one      *)
(* element (dates).                                                        *)
(***************************************************************************)
EXTENDS Integers, Sequences, FiniteSets, TLC

(***************************************************************************)
(* Program constants                                                       *)
(***************************************************************************)
MAX_ARTICLES == 15
ARTICLE_EXPIRATION_DAYS == 30

(***************************************************************************)
(* Bounds of the model                                                     *)
(***************************************************************************)
NumExtra == 3      \* new urls a run brings to a full store
MaxWrites == 2     \* saveSearchResults and direct writeArticlesData calls in a run
NumQueries == 2    \* queries the manual trigger loops over
MaxRank == 4       \* length of the arrays handed to Array.prototype.sort alone
MaxItems == 2      \* items web_search answers per query
NumWebQueries == 2 \* queries performSearch loops over
MaxCron == 2       \* articles a source answers to the scheduled route
MaxRecipients == 2 \* length of the recipients list of a send-email request

(***************************************************************************)
(* Generic helpers                                                         *)
(***************************************************************************)
Min(a, b) == IF a < b THEN a ELSE b

\* Array.prototype.slice(0, n)
Take(s, n) == SubSeq(s, 1, Min(n, Len(s)))

Range(a, b) == [i \in 1..(b - a + 1) |-> a + i - 1]

SeqRange(s) == {s[i] : i \in 1..Len(s)}

\* the value of an optional that is present
Val(x) == CHOOSE v \in x : TRUE

UrlsOf(s) == {s[i].url : i \in 1..Len(s)}

\* [...new Set(xs)] : the distinct elements in order of first occurrence
RECURSIVE DistinctFrom(_, _)
DistinctFrom(s, seen) ==
    IF s = <<>> THEN <<>>
    ELSE IF Head(s) \in seen THEN DistinctFrom(Tail(s), seen)
         ELSE <<Head(s)>> \o DistinctFrom(Tail(s), seen \cup {Head(s)})

Distinct(s) == DistinctFrom(s, {})

NoDuplicateUrls(s) == \A i, j \in 1..Len(s) : s[i].url = s[j].url => i = j

(***************************************************************************)
(* The clock: the instants at which the store is observed.  They are the   *)
(* boundaries of the 7-day search interval (7, 8) and of the 30-day        *)
(* retention window of what was recorded at 0.                             *)
(***************************************************************************)
Instants == {0, 7, 8, ARTICLE_EXPIRATION_DAYS}

(***************************************************************************)
(* Articles                                                                *)
(***************************************************************************)
Urls == 1..(MAX_ARTICLES + NumExtra)

\* extractSourceName: the source label is a function of the url's host
extractSourceName(u) == IF u % 2 = 0 THEN "who.int" ELSE "pubmed.ncbi.nlm.nih.gov"

\* An article as a search run hands it over: id generated at time t for
\* position i of the run, dateFound as given, no expiresAt yet.
Article(u, i, t, df) ==
    [url |-> u, source |-> extractSourceName(u), id |-> <<t, i>>,
     dateFound |-> df, expiresAt |-> {}]

Stored(u, i, t, df, ex) == [Article(u, i, t, df) EXCEPT !.expiresAt = ex]

(***************************************************************************)
(* search-service.ts: pure functions                                       *)
(***************************************************************************)
filterExpiredArticles_le(articles, t) ==
    SelectSeq(articles, LAMBDA a : a.expiresAt # {} /\ \A e \in a.expiresAt : e >= t)

filterExpiredArticles_keepLegacy(articles, t) ==
    SelectSeq(articles, LAMBDA a : \A e \in a.expiresAt : e > t)

\* if (!a.expiresAt) return false; return new Date(a.expiresAt) > now
filterExpiredArticles(articles, t) ==
    SelectSeq(articles, LAMBDA a : a.expiresAt # {} /\ \A e \in a.expiresAt : e > t)

\* new Date(article.dateFound || new Date()) + 30 days; dateFound itself is
\* left as it came
addExpirationDate(article, t) ==
    LET dateFound == IF article.dateFound = {} THEN t
                     ELSE CHOOSE d \in article.dateFound : TRUE
    IN [article EXCEPT !.expiresAt = {dateFound + ARTICLE_EXPIRATION_DAYS}]

MapAddExpiration(s, t) == [i \in 1..Len(s) |-> addExpirationDate(s[i], t)]

(***************************************************************************)
(* Research agent route: texts, urls, papers                               *)
(*                                                                         *)
(* A text is a sequence of words; String.includes is the search for a      *)
(* contiguous run of words.  Accented letters are written without accent.  *)
(* A url is a host (its labels) and a path number.  A paper carries the     *)
(* fields the pipeline reads; id, authors and hasFullText only travel      *)
(* along and are left out.                                                 *)
(***************************************************************************)
CURRENT_YEAR == 2026
MIN_YEAR == CURRENT_YEAR - 4

FAKE_SITES ==
    { <<"actamedicaportuguesa", "com">>, <<"scielo", "pt">>,
      <<"revportcardiologia", "pt">>, <<"rpmgf", "pt">>, <<"spmi", "pt">>,
      <<"ordemdosmedicos", "pt">>, <<"apmc", "pt">> }

RELEVANT_KEYWORDS ==
    { <<"bloodless">>, <<"blood", "conservation">>,
      <<"patient", "blood", "management">>, <<"pbm">>,
      <<"transfusion", "alternative">>, <<"without", "transfusion">>,
      <<"no", "transfusion">>, <<"autologous">>, <<"cell", "salvage">>,
      <<"blood", "salvage">>, <<"cell", "saver">>, <<"anemia", "management">>,
      <<"hemoglobin", "optimization">>, <<"erythropoietin">>,
      <<"intraoperative">>, <<"perioperative">>, <<"preoperative", "anemia">>,
      <<"jehovah", "witness">>, <<"blood", "refuse">>, <<"bloodless", "surgery">>,
      <<"sem", "sangue">>, <<"sem", "transfusao">>, <<"medicina", "sem", "sangue">>,
      <<"gestao", "de", "sangue">>, <<"conservacao", "de", "sangue">>,
      <<"alternativa", "a", "transfusao">>, <<"autologa">>,
      <<"salvamento", "de", "sangue">> }

PortugueseKeywords ==
    { <<"medicina">>, <<"sangue">>, <<"transfusao">>, <<"paciente">>,
      <<"tratamento">>, <<"hospital">>, <<"cirurgia">>, <<"anemia">>,
      <<"portugal">>, <<"saude">> }

\* String.prototype.toLowerCase on the words that occur capitalised
ToLower(w) ==
    CASE w = "Bloodless" -> "bloodless"
      [] w = "PBM" -> "pbm"
      [] w = "Untitled" -> "untitled"
      [] w = "Resumo" -> "resumo"
      [] OTHER -> w

toLowerCase(text) == [i \in 1..Len(text) |-> ToLower(text[i])]

\* String.prototype.includes
includes(text, keyword) ==
    \E i \in 0..(Len(text) - Len(keyword)) :
        \A j \in 1..Len(keyword) : text[i + j] = keyword[j]

\* the number of characters of a word
Chars(w) ==
    CASE w \in {"sem", "PBM"} -> 3
      [] w \in {"care"} -> 4
      [] w \in {"review", "sangue"} -> 6
      [] w \in {"surgery"} -> 7
      [] w \in {"outcomes", "surgical", "medicina", "cirurgia", "medicine", "Untitled"} -> 8
      [] w \in {"Bloodless", "bloodless"} -> 9
      [] w \in {"transfusao", "autologous"} -> 10
      [] w \in {"transfusion"} -> 11
      [] w \in {"perioperative"} -> 13

\* String.prototype.length of a text: its words and the blanks between them
RECURSIVE length(_)
length(text) ==
    IF text = <<>> THEN 0
    ELSE IF Len(text) = 1 THEN Chars(text[1])
    ELSE Chars(Head(text)) + 1 + length(Tail(text))

\* `${x}` of a field the payload may lack
Interpolate(x) == IF x = <<>> THEN <<"undefined">> ELSE x

Untitled == <<"Untitled">>
NoAbstract == <<"Resumo", "nao", "disponivel">>
AbstractAtLink == <<"Resumo", "disponivel", "no", "link">>

\* new URL(url).hostname.replace('www.', ''): the first www label goes
StripWww(host) ==
    IF \E i \in 1..Len(host) : host[i] = "www"
    THEN LET k == CHOOSE i \in 1..Len(host) :
                    host[i] = "www" /\ \A j \in 1..(i - 1) : host[j] # "www"
         IN SubSeq(host, 1, k - 1) \o SubSeq(host, k + 1, Len(host))
    ELSE host

\* hostname === site || hostname.endsWith('.' + site)
HostMatches(hostname, site) ==
    /\ Len(hostname) >= Len(site)
    /\ SubSeq(hostname, Len(hostname) - Len(site) + 1, Len(hostname)) = site

isFakeSite(url) == \E site \in FAKE_SITES : HostMatches(StripWww(url.host), site)

detectPortuguese(title, abstract) ==
    LET text == toLowerCase(Interpolate(title) \o Interpolate(abstract))
    IN \E k \in PortugueseKeywords : includes(text, k)

\* year : {} for the empty string, else the number parseInt reads
isValidYear(year) == year = {} \/ \A y \in year : y >= MIN_YEAR /\ y <= CURRENT_YEAR

isRelevantArticle(title, abstract) ==
    LET text == toLowerCase(title \o abstract)
    IN \E keyword \in RELEVANT_KEYWORDS : includes(text, keyword)

calculateRelevanceScore(title, abstract) ==
    LET text == toLowerCase(title \o abstract)
    IN Cardinality({keyword \in RELEVANT_KEYWORDS : includes(text, keyword)})

Paper(source, r, abstract, isPortuguese, citationCount) ==
    [source |-> source,
     title |-> IF r.title = <<>> THEN Untitled ELSE r.title,
     year |-> r.year, abstract |-> abstract, url |-> r.url,
     isPortuguese |-> isPortuguese, citationCount |-> citationCount,
     relevanceScore |-> {}, dateFound |-> {}, expiresAt |-> {}]

(***************************************************************************)
(* What the four sources answer (after JSON.parse): one payload each.      *)
(* Url 1 comes from Europe PMC, Semantic Scholar and DOAJ; url 2 from      *)
(* Europe PMC without an abstract and from Semantic Scholar with one.      *)
(* PubMed has a record without title; DOAJ has one whose link is no http   *)
(* url.                                                                     *)
(***************************************************************************)
Doi(n) == [scheme |-> "https", host |-> <<"doi", "org">>, path |-> n]

\* https://pubmed.ncbi.nlm.nih.gov/${uid}/
PubMedUrl(uid) ==
    [scheme |-> "https", host |-> <<"pubmed", "ncbi", "nlm", "nih", "gov">>, path |-> uid]

Raw(url, title, abstract, year, cit, country) ==
    [url |-> url, title |-> title, abstract |-> abstract, year |-> year,
     citationCount |-> cit, country |-> country]

Payload(a) ==
    CASE a = "epmc" ->
           << Raw(Doi(1), <<"Bloodless", "surgery", "outcomes">>,
                  <<"patient", "blood", "management">>, {2025}, {}, "GB"),
              Raw(Doi(2), <<"surgical", "outcomes", "review">>, <<>>, {2024}, {}, "GB") >>
      [] a = "semantic" ->
           << Raw(Doi(1), <<"Bloodless", "surgery", "outcomes">>,
                  <<"cell", "salvage">>, {2025}, {10}, "GB"),
              Raw(Doi(2), <<"surgical", "outcomes", "review">>,
                  <<"anemia", "management", "without", "transfusion">>, {2024}, {}, "GB") >>
      [] a = "pubmed" ->
           << Raw(PubMedUrl(3), <<"medicina", "sem", "sangue">>, <<"PBM">>, {2023}, {}, "PT"),
              Raw(PubMedUrl(4), <<"perioperative", "care">>, <<>>, {2019}, {}, "US"),
              Raw(PubMedUrl(7), <<>>, <<"cell", "saver">>, {2025}, {}, "US") >>
      [] a = "doaj" ->
           << Raw([scheme |-> "https", host |-> <<"www", "scielo", "pt">>, path |-> 5],
                  <<"cirurgia", "sem", "transfusao">>, <<>>, {2024}, {}, "PT"),
              Raw(Doi(1), <<"bloodless", "medicine">>, <<>>, {2018}, {}, "GB"),
              Raw(Doi(6), <<"autologous", "transfusion">>, <<>>, {}, {}, "PT"),
              Raw([scheme |-> "ftp", host |-> <<"ftp", "example", "org">>, path |-> 8],
                  <<"perioperative", "care">>, <<>>, {2025}, {}, "GB") >>

(***************************************************************************)
(* The four adapters on a payload that arrived                             *)
(***************************************************************************)
MapSeq(s, F(_)) == [i \in 1..Len(s) |-> F(s[i])]

fetchEuropePMC(results) ==
    MapSeq(SelectSeq(results, LAMBDA r : isValidYear(r.year)),
           LAMBDA r : Paper("Europe PMC", r,
                            IF r.abstract = <<>> THEN NoAbstract ELSE r.abstract,
                            detectPortuguese(r.title, r.abstract), {}))

\* citationCount: r.citationCount || 0
fetchSemanticScholar(results) ==
    MapSeq(SelectSeq(results, LAMBDA r : isValidYear(r.year)),
           LAMBDA r : Paper("Semantic Scholar", r,
                            IF r.abstract = <<>> THEN NoAbstract ELSE r.abstract,
                            detectPortuguese(r.title, r.abstract),
                            IF r.citationCount = {} THEN {0} ELSE r.citationCount))

\* the language is detected on the abstract already defaulted; the year
\* filter comes after the mapping
fetchPubMed(results) ==
    SelectSeq(MapSeq(results,
                     LAMBDA r : LET abstract == IF r.abstract = <<>> THEN AbstractAtLink
                                                ELSE r.abstract
                                IN Paper("PubMed", r, abstract,
                                         detectPortuguese(r.title, abstract), {})),
              LAMBDA p : isValidYear(p.year))

\* no year filter
fetchDOAJ(results) ==
    MapSeq(results,
           LAMBDA r : Paper("DOAJ", r,
                            IF r.abstract = <<>> THEN NoAbstract ELSE r.abstract,
                            r.country = "PT" \/ detectPortuguese(r.title, r.abstract), {}))

Adapters == {"epmc", "semantic", "pubmed", "doaj"}

SourceName(a) ==
    CASE a = "epmc" -> "Europe PMC"
      [] a = "semantic" -> "Semantic Scholar"
      [] a = "pubmed" -> "PubMed"
      [] a = "doaj" -> "DOAJ"

Fetch(a, results) ==
    CASE a = "epmc" -> fetchEuropePMC(results)
      [] a = "semantic" -> fetchSemanticScholar(results)
      [] a = "pubmed" -> fetchPubMed(results)
      [] a = "doaj" -> fetchDOAJ(results)

Settled_noCatch(a, outcome) ==
    IF outcome = "ok" THEN [call |-> "ok", value |-> Fetch(a, Payload(a))]
    ELSE [call |-> "rejected", value |-> <<>>]

\* How the promise of adapter a settles: with the papers of the payload, or,
\* on a network error, a non-2xx status or a body that does not parse, with
\* [] (if (!response.ok) return []; catch { return [] }): it never rejects
Settled(a, outcome) ==
    IF outcome = "ok" THEN [call |-> "ok", value |-> Fetch(a, Payload(a))]
    ELSE [call |-> "failed", value |-> <<>>]

(***************************************************************************)
(* Research agent route: searchAll and the handler's final steps           *)
(***************************************************************************)
\* a number used as a condition: defined and not 0
Truthy(x) == x # {} /\ Val(x) # 0

RECURSIVE uniqueResults_noGate(_, _)
uniqueResults_noGate(allResults, seenUrls) ==
    IF allResults = <<>> THEN <<>>
    ELSE LET paper == Head(allResults) IN
         IF paper.url \in seenUrls \/ isFakeSite(paper.url)
         THEN uniqueResults_noGate(Tail(allResults), seenUrls)
         ELSE <<paper>> \o uniqueResults_noGate(Tail(allResults), seenUrls \cup {paper.url})

\* the filter of searchAll: first accepted copy of each url
RECURSIVE uniqueResults(_, _)
uniqueResults(allResults, seenUrls) ==
    IF allResults = <<>> THEN <<>>
    ELSE LET paper == Head(allResults) IN
         IF paper.url \in seenUrls \/ isFakeSite(paper.url)
         THEN uniqueResults(Tail(allResults), seenUrls)
         ELSE IF ~isRelevantArticle(paper.title, paper.abstract)
         THEN uniqueResults(Tail(allResults), seenUrls)
         ELSE <<paper>> \o uniqueResults(Tail(allResults), seenUrls \cup {paper.url})

\* the comparator of searchAll; NaN (a year that does not parse) counts as 0
searchAllCompare(a, b) ==
    IF Val(b.relevanceScore) # Val(a.relevanceScore)
    THEN Val(b.relevanceScore) - Val(a.relevanceScore)
    ELSE IF a.isPortuguese /\ ~b.isPortuguese THEN 0 - 1
    ELSE IF ~a.isPortuguese /\ b.isPortuguese THEN 1
    ELSE IF Truthy(a.citationCount) /\ Truthy(b.citationCount)
    THEN Val(b.citationCount) - Val(a.citationCount)
    ELSE IF a.year = {} \/ b.year = {} THEN 0
    ELSE Val(b.year) - Val(a.year)

\* the comparator of POST: no score tier, an empty year reads as 0
postCompare(a, b) ==
    IF a.isPortuguese /\ ~b.isPortuguese THEN 0 - 1
    ELSE IF ~a.isPortuguese /\ b.isPortuguese THEN 1
    ELSE IF Truthy(a.citationCount) /\ Truthy(b.citationCount)
    THEN Val(b.citationCount) - Val(a.citationCount)
    ELSE (IF b.year = {} THEN 0 ELSE Val(b.year)) - (IF a.year = {} THEN 0 ELSE Val(a.year))

\* the comparefn handed to Array.prototype.sort, by the place of the call
CallCompare(kind, x, y) ==
    IF kind = "searchAll" THEN searchAllCompare(x, y) ELSE postCompare(x, y)

(***************************************************************************)
(* Array.prototype.sort as the runtime (Node, V8) computes it on an array  *)
(* of fewer than 64 elements: the leading run is found (and reversed when  *)
(* it is strictly descending), the rest is inserted by binary search.      *)
(* With a comparefn that is not a consistent order the result is what     *)
(* these steps yield.  Indices are 0-based as in the engine; w[i + 1] is   *)
(* its element i.                                                          *)
(***************************************************************************)
\* is the leading run a descending one
IsDescending(w, kind) == CallCompare(kind, w[2], w[1]) < 0

\* CountAndMakeRun: the length of the leading run of w, Len(w) >= 2
RunLength(w, kind) ==
    LET goesOn(i) == IF IsDescending(w, kind)
                     THEN CallCompare(kind, w[i], w[i - 1]) < 0
                     ELSE CallCompare(kind, w[i], w[i - 1]) >= 0
        runs == {r \in 2..Len(w) : \A i \in 3..r : goesOn(i)}
    IN CHOOSE r \in runs : \A r2 \in runs : r2 <= r

Reverse(w) == [i \in 1..Len(w) |-> w[Len(w) + 1 - i]]

\* CountAndMakeRun: w with its leading run made ascending
MakeRun(w, kind) ==
    LET n == RunLength(w, kind)
    IN IF IsDescending(w, kind)
       THEN Reverse(SubSeq(w, 1, n)) \o SubSeq(w, n + 1, Len(w))
       ELSE w

\* the binary search of BinaryInsertionSort: where pivot goes in w[left..right)
RECURSIVE InsertionPoint(_, _, _, _, _)
InsertionPoint(w, pivot, left, right, kind) ==
    IF left >= right THEN left
    ELSE LET mid == left + ((right - left) \div 2)
         IN IF CallCompare(kind, pivot, w[mid + 1]) < 0
            THEN InsertionPoint(w, pivot, left, mid, kind)
            ELSE InsertionPoint(w, pivot, mid + 1, right, kind)

\* BinaryInsertionSort: w[0..start) is sorted, the elements from start on
\* are inserted one by one
RECURSIVE BinaryInsertionSort(_, _, _)
BinaryInsertionSort(w, start, kind) ==
    IF start >= Len(w) THEN w
    ELSE LET pivot == w[start + 1]
             left == InsertionPoint(w, pivot, 0, start, kind)
             moved == SubSeq(w, 1, left) \o <<pivot>> \o SubSeq(w, left + 1, start)
                         \o SubSeq(w, start + 2, Len(w))
         IN BinaryInsertionSort(moved, start + 1, kind)

ArrayTimSort(w, kind) ==
    IF Len(w) < 2 THEN w
    ELSE BinaryInsertionSort(MakeRun(w, kind), RunLength(w, kind), kind)

\* scoredResults.sort(...) of searchAll
searchAllSort(s) == ArrayTimSort(s, "searchAll")

\* uniquePapers.sort(...) of POST
postSort(s) == ArrayTimSort(s, "post")

allResults_completionOrder(results, first) ==
    LET rest(a) == IF <<a>> = first THEN <<>> ELSE results[a]
    IN (IF first = <<>> THEN <<>> ELSE results[first[1]])
       \o rest("epmc") \o rest("semantic") \o rest("pubmed") \o rest("doaj")

\* [...epmc, ...semantic, ...pubmed, ...doaj]: Promise.all keeps the order of
\* the calls, not the order of completion
allResults(results, first) ==
    results["epmc"] \o results["semantic"] \o results["pubmed"] \o results["doaj"]

\* searchAll, once the four promises are settled
searchAll(results, first) ==
    LET unique == uniqueResults(allResults(results, first), {})
        scoredResults ==
            MapSeq(unique, LAMBDA paper :
                     [paper EXCEPT !.relevanceScore =
                          {calculateRelevanceScore(paper.title, paper.abstract)}])
    IN searchAllSort(scoredResults)

\* the final deduplication of POST
RECURSIVE uniquePapers_lastWins(_, _)
uniquePapers_lastWins(allPapers, seenUrls) ==
    IF allPapers = <<>> THEN <<>>
    ELSE LET paper == allPapers[Len(allPapers)]
             front == SubSeq(allPapers, 1, Len(allPapers) - 1) IN
         IF paper.url \in seenUrls THEN uniquePapers_lastWins(front, seenUrls)
         ELSE uniquePapers_lastWins(front, seenUrls \cup {paper.url}) \o <<paper>>

RECURSIVE uniquePapers(_, _)
uniquePapers(allPapers, seenUrls) ==
    IF allPapers = <<>> THEN <<>>
    ELSE LET paper == Head(allPapers) IN
         IF paper.url \in seenUrls THEN uniquePapers(Tail(allPapers), seenUrls)
         ELSE <<paper>> \o uniquePapers(Tail(allPapers), seenUrls \cup {paper.url})

\* addExpirationDate of the route: dateFound = now, expiresAt = now + 30 days
addExpirationDatePaper(paper, t) ==
    [paper EXCEPT !.dateFound = {t}, !.expiresAt = {t + ARTICLE_EXPIRATION_DAYS}]

\* POST after the loops: deduplicate, sort, keep 15, stamp
finalPapers(allPapers, t) ==
    MapSeq(Take(postSort(uniquePapers(allPapers, {})), 15),
           LAMBDA paper : addExpirationDatePaper(paper, t))

(***************************************************************************)
(* State                                                                   *)
(***************************************************************************)
VARIABLES
    now,            \* Date.now(), in days
    memArticles,    \* memoryCache.articles
    memLastSearch,  \* memoryCache.lastSearch : <<>> (null) or <<record>>
    diskArticles,   \* articles.json : <<>> (no file) or <<its article list>>
    diskLastSearch, \* last-search.json : <<>> (no file) or <<record>>
    recorded,       \* history: time of the last search any mergeAndSave recorded
    writes,         \* history: number of saveSearchResults / writeArticlesData calls
    ret,            \* the last call of the store and what it returned
    pc,             \* POST of the research route: "loop", "await" or "done"
    q,              \* index of the query the loop is at
    call,           \* per adapter: "idle", "pending", "ok", "failed", "rejected", "hung"
    results,        \* per adapter: what its promise resolved to
    firstSettled,   \* history: <<>> or <<the adapter whose promise settled first>>
    found,          \* what the last searchAll returned
    allPapers,      \* allPapers of POST
    response,       \* <<>> or <<the JSON body POST answered with>>
    unranked,       \* an array handed to Array.prototype.sort
    ranked,         \* the call that sorted it ("none" before) and the array after
    webResults,     \* per query: what web_search answered to performSearch
    performSearchRet, \* <<>> or <<the list performSearch returned>>
    status,         \* <<>> or <<the data the last status query answered with>>
    cronPc,         \* POST of the scheduled route: "idle", "pubmed", "epmc", "curated", "done"
    cronArticles,   \* allArticles of the scheduled route
    cronResponse,   \* <<>> or <<the status and JSON body the scheduled route answered with>>
    mailPc,         \* POST of the send-email route: "idle", "loop" or "done"
    mailRequest,    \* the request: its JSON body and whether BREVO_API_KEY is set
    mailRecipients, \* recipients of the route
    mailResults,    \* results of the route
    mailCalls,      \* history: the sendTransacEmail calls the provider received
    mailResponse,   \* <<>> or <<the JSON body the route answered with>>
    tasks,          \* per trigger: its saveSearchResults call (position, arguments, locals)
    running,        \* the call the thread is executing: "none" or a trigger
    started,        \* history: the triggers in the order their calls began
    before          \* history: <<>> or <<the store before the first of the calls>>

storeVars == <<now, memArticles, memLastSearch, diskArticles, diskLastSearch,
               recorded, writes, ret>>

aggVars == <<pc, q, call, results, firstSettled, found, allPapers, response>>

pureVars == <<unranked, ranked, webResults, performSearchRet>>

cronVars == <<cronPc, cronArticles, cronResponse>>

mailVars == <<mailPc, mailRequest, mailRecipients, mailResults, mailCalls, mailResponse>>

concVars == <<tasks, running, started, before>>

svcVars == <<status, cronVars, mailVars, concVars>>

vars == <<storeVars, aggVars, pureVars, svcVars>>

NoCall == [op |-> "none", articles |-> <<>>, value |-> FALSE,
           input |-> <<>>, existing |-> <<>>]

(***************************************************************************)
(* search-service.ts: the store                                            *)
(***************************************************************************)
\* writeArticlesData: the cache is always set, the file only if the write
\* does not throw (the error is caught and logged)
writeArticlesData(articles, disk, writeOk) ==
    [mem |-> articles, disk |-> IF writeOk THEN <<articles>> ELSE disk]

readArticlesData_noSlice(mem, disk, t, writeOk) ==
    IF Len(mem) > 0
    THEN [articles |-> filterExpiredArticles(mem, t), mem |-> mem, disk |-> disk]
    ELSE IF disk # <<>>
    THEN LET allArticles == disk[1]
             validArticles == filterExpiredArticles(allArticles, t)
             w == IF Len(validArticles) # Len(allArticles)
                  THEN writeArticlesData(validArticles, disk, writeOk)
                  ELSE [mem |-> validArticles, disk |-> disk]
         IN [articles |-> validArticles, mem |-> w.mem, disk |-> w.disk]
    ELSE [articles |-> <<>>, mem |-> mem, disk |-> disk]

\* readArticlesData: what it returns and what it leaves in the cache and in
\* the file
readArticlesData(mem, disk, t, writeOk) ==
    IF Len(mem) > 0
    THEN [articles |-> Take(filterExpiredArticles(mem, t), MAX_ARTICLES),
          mem |-> mem, disk |-> disk]
    ELSE IF disk # <<>>
    THEN LET allArticles == disk[1]
             validArticles == Take(filterExpiredArticles(allArticles, t), MAX_ARTICLES)
             w == IF Len(validArticles) # Len(allArticles)
                  THEN writeArticlesData(validArticles, disk, writeOk)
                  ELSE [mem |-> validArticles, disk |-> disk]
         IN [articles |-> validArticles, mem |-> w.mem, disk |-> w.disk]
    ELSE [articles |-> <<>>, mem |-> mem, disk |-> disk]

DefaultLastSearch ==
    [lastSearchTimestamp |-> {}, nextScheduledSearch |-> {},
     articlesFound |-> 0, sourcesSearched |-> <<>>]

\* readLastSearchData: the cached record, else the file's (which is then
\* cached), else the default record
readLastSearchData(memLast, diskLast) ==
    IF memLast # <<>> THEN [data |-> memLast[1], mem |-> memLast]
    ELSE IF diskLast # <<>> THEN [data |-> diskLast[1], mem |-> diskLast]
    ELSE [data |-> DefaultLastSearch, mem |-> memLast]

writeLastSearchData(data, diskLast, writeOk) ==
    [mem |-> <<data>>, disk |-> IF writeOk THEN <<data>> ELSE diskLast]

needsSearch_le(lastSearch, t) ==
    IF lastSearch.lastSearchTimestamp = {} THEN TRUE
    ELSE \A ts \in lastSearch.lastSearchTimestamp : ts <= t - 7

\* needsSearch: lastSearchDate < weekAgo
needsSearch(lastSearch, t) ==
    IF lastSearch.lastSearchTimestamp = {} THEN TRUE
    ELSE \A ts \in lastSearch.lastSearchTimestamp : ts < t - 7

LastSearchOf_distinctUrls(articles, t) ==
    [lastSearchTimestamp |-> {t}, nextScheduledSearch |-> {t + 7},
     articlesFound |-> Cardinality(UrlsOf(articles)),
     sourcesSearched |-> Distinct([i \in 1..Len(articles) |-> articles[i].source])]

\* the record saveSearchResults writes
LastSearchOf(articles, t) ==
    [lastSearchTimestamp |-> {t}, nextScheduledSearch |-> {t + 7},
     articlesFound |-> Len(articles),
     sourcesSearched |-> Distinct([i \in 1..Len(articles) |-> articles[i].source])]

limitedArticles_existingFirst(articles, existing, t) ==
    LET validExistingArticles == filterExpiredArticles(existing, t)
        existingUrls == UrlsOf(validExistingArticles)
        newArticles == MapAddExpiration(
                           SelectSeq(articles, LAMBDA a : a.url \notin existingUrls), t)
        mergedArticles == validExistingArticles \o newArticles
    IN Take(mergedArticles, MAX_ARTICLES)

\* saveSearchResults, up to the list it writes
limitedArticles(articles, existing, t) ==
    LET validExistingArticles == filterExpiredArticles(existing, t)
        existingUrls == UrlsOf(validExistingArticles)
        newArticles == MapAddExpiration(
                           SelectSeq(articles, LAMBDA a : a.url \notin existingUrls), t)
        mergedArticles == newArticles \o validExistingArticles
    IN Take(mergedArticles, MAX_ARTICLES)

(***************************************************************************)
(* search-service.ts: performSearch and its allow-list                     *)
(***************************************************************************)
REPUTABLE_SOURCES ==
    { <<"pmc", "ncbi", "nlm", "nih", "gov">>, <<"pubmed", "ncbi", "nlm", "nih", "gov">>,
      <<"aabb", "org">>, <<"who", "int">>, <<"ashpublications", "org">>,
      <<"sciencedirect", "com">>, <<"link", "springer", "com">>, <<"jmir", "org">>,
      <<"researchgate", "net">>, <<"nejm", "org">>, <<"thelancet", "com">>,
      <<"bmj", "com">>, <<"jamanetwork", "com">>, <<"nature", "com">>,
      <<"frontiersin", "org">>, <<"plos", "org">>, <<"mdpi", "com">>,
      <<"biomedcentral", "com">> }

\* a string new URL() throws on
NotAUrl == [scheme |-> "", host |-> <<>>, path |-> 0]

\* try { hostname = new URL(url).hostname.replace('www.', ''); some(...) }
\* catch { return false }
isReputableSource(url) ==
    /\ url # NotAUrl
    /\ \E source \in REPUTABLE_SOURCES : HostMatches(StripWww(url.host), source)

\* the article performSearch builds of an item at time t
WebArticle(item, t) ==
    [url |-> item.url, source |-> StripWww(item.url.host),
     dateFound |-> {t}, expiresAt |-> {t + ARTICLE_EXPIRATION_DAYS}]

\* the inner loop of performSearch over the items of one answer
RECURSIVE performSearchItems(_, _, _)
performSearchItems(searchResult, allArticles, t) ==
    IF searchResult = <<>> THEN allArticles
    ELSE LET item == Head(searchResult)
         IN IF isReputableSource(item.url) /\ item.url \notin UrlsOf(allArticles)
            THEN performSearchItems(Tail(searchResult),
                                    Append(allArticles, WebArticle(item, t)), t)
            ELSE performSearchItems(Tail(searchResult), allArticles, t)

\* the outer loop over the queries
RECURSIVE performSearchQueries(_, _, _)
performSearchQueries(answers, allArticles, t) ==
    IF answers = <<>> THEN allArticles
    ELSE performSearchQueries(Tail(answers),
                              performSearchItems(Head(answers), allArticles, t), t)

\* performSearch: [] when ZAI.create() throws
performSearch(answers, zaiOk, t) ==
    IF zaiOk THEN performSearchQueries(answers, <<>>, t) ELSE <<>>

(***************************************************************************)
(* Inputs                                                                  *)
(***************************************************************************)
RunArticles(urls, t, df) == [i \in 1..Len(urls) |-> Article(urls[i], i, t, df)]

\* The lists a caller hands to saveSearchResults at time t: nothing; enough
\* fresh articles to fill the store; NumExtra new urls followed by a url the
\* store may hold; the same url twice with no dateFound, followed by an
\* article whose dateFound lies a whole retention window back.
RunInputs(t) ==
    { <<>>,
      RunArticles(Range(1, MAX_ARTICLES), t, {t}),
      RunArticles(Range(MAX_ARTICLES + 1, MAX_ARTICLES + NumExtra) \o <<1>>, t, {t}),
      RunArticles(<<MAX_ARTICLES + 1, MAX_ARTICLES + 1>>, t, {})
         \o <<Article(MAX_ARTICLES + 2, 3, t, {t - ARTICLE_EXPIRATION_DAYS})>> }

\* A collection that reaches the store without saveSearchResults (a direct
\* writeArticlesData, a file left by an earlier deployment): a legacy record
\* without expiresAt, a record that expires at t, and one more valid article
\* than the cap.
DirectList(t) ==
    << [url |-> MAX_ARTICLES + 2, source |-> extractSourceName(MAX_ARTICLES + 2),
        id |-> <<t - 40, 1>>, dateFound |-> {t - 40}, expiresAt |-> {}],
       Stored(MAX_ARTICLES + 3, 2, t - ARTICLE_EXPIRATION_DAYS,
              {t - ARTICLE_EXPIRATION_DAYS}, {t}) >>
    \o [i \in 1..(MAX_ARTICLES + 1) |->
          Stored(i, i + 2, t - 1, {t - 1}, {t - 1 + ARTICLE_EXPIRATION_DAYS})]

(***************************************************************************)
(* Init: a fresh process (empty cache) over whatever the files hold        *)
(***************************************************************************)
StoreInit ==
    /\ now = 0
    /\ memArticles = <<>>
    /\ memLastSearch = <<>>
    /\ diskArticles \in {<<>>, <<DirectList(0)>>}
    /\ writes = 0
    /\ \E r \in {{}, {0 - 1}} :
          /\ recorded = r
          /\ diskLastSearch = IF r = {} THEN <<>>
                              ELSE <<LastSearchOf(<<>>, CHOOSE ts \in r : TRUE)>>
    /\ ret = NoCall

(***************************************************************************)
(* Operations of the store                                                 *)
(***************************************************************************)
\* what the store holds before a call: the cache, else the file
StoreView(mem, disk) ==
    IF Len(mem) > 0 THEN mem ELSE IF disk # <<>> THEN disk[1] ELSE <<>>

\* loadAll = readArticlesData
LoadAll ==
    \E writeOk \in BOOLEAN :
      LET r == readArticlesData(memArticles, diskArticles, now, writeOk) IN
        /\ memArticles' = r.mem
        /\ diskArticles' = r.disk
        /\ ret' = [NoCall EXCEPT !.op = "loadAll", !.articles = r.articles,
                                 !.value = writeOk]
        /\ UNCHANGED <<now, memLastSearch, diskLastSearch, recorded, writes>>
        /\ UNCHANGED <<aggVars, pureVars, svcVars>>

\* mergeAndSave = saveSearchResults
SaveSearchResults ==
    \E articles \in RunInputs(now), articlesFileOk, lastSearchFileOk \in BOOLEAN :
      LET existingData == readArticlesData(memArticles, diskArticles, now, articlesFileOk)
          limited == limitedArticles(articles, existingData.articles, now)
          wl == writeLastSearchData(LastSearchOf(articles, now), diskLastSearch,
                                    lastSearchFileOk)
          wa == writeArticlesData(limited, existingData.disk, articlesFileOk)
      IN
        /\ writes < MaxWrites
        /\ writes' = writes + 1
        /\ memLastSearch' = wl.mem
        /\ diskLastSearch' = wl.disk
        /\ memArticles' = wa.mem
        /\ diskArticles' = wa.disk
        /\ recorded' = {now}
        /\ ret' = [NoCall EXCEPT !.op = "save", !.input = articles,
                                 !.existing = StoreView(memArticles, diskArticles),
                                 !.value = articlesFileOk]
        /\ UNCHANGED now
        /\ UNCHANGED <<aggVars, pureVars, svcVars>>

\* needsNewSearch = needsSearch
NeedsSearch ==
    LET r == readLastSearchData(memLastSearch, diskLastSearch) IN
      /\ memLastSearch' = r.mem
      /\ ret' = [NoCall EXCEPT !.op = "needsSearch", !.value = needsSearch(r.data, now)]
      /\ UNCHANGED <<now, memArticles, diskArticles, diskLastSearch, recorded, writes>>
      /\ UNCHANGED <<aggVars, pureVars, svcVars>>

\* a direct call of the exported writeArticlesData, with such a collection
\* or with an empty one
WriteArticlesData ==
    \E writeOk \in BOOLEAN, l \in {DirectList(now), <<>>} :
      LET w == writeArticlesData(l, diskArticles, writeOk) IN
        /\ writes < MaxWrites
        /\ writes' = writes + 1
        /\ memArticles' = w.mem
        /\ diskArticles' = w.disk
        /\ ret' = [NoCall EXCEPT !.op = "write", !.input = l, !.value = writeOk]
        /\ UNCHANGED <<now, memLastSearch, diskLastSearch, recorded>>
        /\ UNCHANGED <<aggVars, pureVars, svcVars>>

PassTime ==
    /\ \E t \in Instants : t > now /\ now' = t
    /\ ret' = NoCall
    /\ UNCHANGED <<memArticles, memLastSearch, diskArticles, diskLastSearch, recorded,
                   writes>>
    /\ UNCHANGED <<aggVars, pureVars, svcVars>>

StoreNext ==
    \/ LoadAll
    \/ SaveSearchResults
    \/ NeedsSearch
    \/ WriteArticlesData
    \/ PassTime

\* getWeeklyArticles on what readArticlesData returned: found within the
\* last 7 days, with an expiresAt, not expired (an article without dateFound
\* gives an invalid date, and the comparison is false)
getWeeklyArticles(articles, t) ==
    Take(SelectSeq(articles,
                   LAMBDA a : /\ a.expiresAt # {}
                              /\ a.dateFound # {} /\ Val(a.dateFound) >= t - 7
                              /\ Val(a.expiresAt) > t),
         MAX_ARTICLES)

\* GET of the status route: getSystemStatus, then getWeeklyArticles
GetStatus ==
    \E writeOk \in BOOLEAN :
      LET lastSearch == readLastSearchData(memLastSearch, diskLastSearch)
          counted == readArticlesData(memArticles, diskArticles, now, writeOk)
          listed == readArticlesData(counted.mem, counted.disk, now, writeOk)
      IN
        /\ status' = << [lastSearch |-> lastSearch.data,
                         articlesCount |-> Len(counted.articles),
                         weeklyArticles |-> getWeeklyArticles(listed.articles, now)] >>
        /\ memLastSearch' = lastSearch.mem
        /\ memArticles' = listed.mem
        /\ diskArticles' = listed.disk
        /\ ret' = [NoCall EXCEPT !.op = "status", !.value = writeOk]
        /\ UNCHANGED <<now, diskLastSearch, recorded, writes>>
        /\ UNCHANGED <<aggVars, pureVars, cronVars, mailVars, concVars>>

StatusNext ==
    \/ StoreNext
    \/ GetStatus

(***************************************************************************)
(* POST of the research route: one request                                 *)
(***************************************************************************)
AdapterOrder == <<"epmc", "semantic", "pubmed", "doaj">>

Position(a) == CHOOSE i \in 1..4 : AdapterOrder[i] = a

AggInit ==
    /\ pc = "loop"
    /\ q = 1
    /\ call = [a \in Adapters |-> "idle"]
    /\ results = [a \in Adapters |-> <<>>]
    /\ firstSettled = <<>>
    /\ found = <<>>
    /\ allPapers = <<>>
    /\ response = <<>>

\* for (const query of ...) { await agent.searchAll(query) ... : the four
\* fetches of one query start together
StartSearchAll ==
    /\ pc = "loop"
    /\ q <= NumQueries
    /\ pc' = "await"
    /\ call' = [a \in Adapters |-> "pending"]
    /\ results' = [a \in Adapters |-> <<>>]
    /\ firstSettled' = <<>>
    /\ UNCHANGED <<q, found, allPapers, response>>
    /\ UNCHANGED <<storeVars, pureVars, svcVars>>

\* the source of adapter a answers: with its payload, or with a network
\* error, a non-2xx status or a body that does not parse (the adapter's
\* catch / early return then yields [])
Respond(a) ==
    /\ pc = "await"
    /\ call[a] = "pending"
    /\ \E outcome \in {"ok", "error"} :
         /\ call' = [call EXCEPT ![a] = Settled(a, outcome).call]
         /\ results' = [results EXCEPT ![a] = Settled(a, outcome).value]
    /\ firstSettled' = IF firstSettled = <<>> THEN <<a>> ELSE firstSettled
    /\ UNCHANGED <<pc, q, found, allPapers, response>>
    /\ UNCHANGED <<storeVars, pureVars, svcVars>>

\* the source of adapter a never answers: fetch is called without a signal
\* or a timeout, so the promise stays pending
Hang(a) ==
    /\ pc = "await"
    /\ call[a] = "pending"
    /\ call' = [call EXCEPT ![a] = "hung"]
    /\ UNCHANGED <<pc, q, results, firstSettled, found, allPapers, response>>
    /\ UNCHANGED <<storeVars, pureVars, svcVars>>

\* the body POST answers with from its catch
ErrorResponse ==
    [success |-> FALSE, articlesFound |-> 0, portugueseArticles |-> 0,
     weeklyArticles |-> <<>>]

\* Promise.all settles.  Fulfilled: searchAll merges, filters, scores and
\* sorts, and the loop pushes the papers.  Rejected: the error leaves
\* searchAll and the loop and reaches the catch of POST.
Collect ==
    /\ pc = "await"
    /\ \/ \A a \in Adapters : call[a] \in {"ok", "failed"}
       \/ \E a \in Adapters : call[a] = "rejected"
    /\ IF \E a \in Adapters : call[a] = "rejected"
       THEN /\ response' = <<ErrorResponse>>
            /\ pc' = "done"
            /\ UNCHANGED <<q, found, allPapers>>
       ELSE /\ found' = searchAll(results, firstSettled)
            /\ allPapers' = allPapers \o found'
            /\ q' = q + 1
            /\ pc' = "loop"
            /\ UNCHANGED response
    /\ UNCHANGED <<call, results, firstSettled>>
    /\ UNCHANGED <<storeVars, pureVars, svcVars>>

\* after the loops: the success response
Finish ==
    /\ pc = "loop"
    /\ q > NumQueries
    /\ LET final == finalPapers(allPapers, now) IN
         response' = << [success |-> TRUE, articlesFound |-> Len(final),
                         portugueseArticles |->
                             Len(SelectSeq(final, LAMBDA p : p.isPortuguese)),
                         weeklyArticles |-> final] >>
    /\ pc' = "done"
    /\ UNCHANGED <<q, call, results, firstSettled, found, allPapers>>
    /\ UNCHANGED <<storeVars, pureVars, svcVars>>

\* an error is raised inside the try block of POST, outside the guards of
\* the adapters, and reaches its catch
Throw ==
    /\ pc \in {"loop", "await"}
    /\ response' = <<ErrorResponse>>
    /\ pc' = "done"
    /\ UNCHANGED <<q, call, results, firstSettled, found, allPapers>>
    /\ UNCHANGED <<storeVars, pureVars, svcVars>>

AggNext ==
    \/ StartSearchAll
    \/ \E a \in Adapters : Respond(a)
    \/ \E a \in Adapters : Hang(a)
    \/ Collect
    \/ Finish

(***************************************************************************)
(* POST of the scheduled route (api/cron/search): one request              *)
(***************************************************************************)
EuropePmcUrl(id) == [scheme |-> "https", host |-> <<"europepmc", "org">>, path |-> id]

CronArticle(url, source, publicationDate) ==
    [url |-> url, source |-> source, publicationDate |-> publicationDate]

\* the WHO publication number is cut to its last six digits
CURATED_ARTICLES ==
    << CronArticle([scheme |-> "https", host |-> <<"pmc", "ncbi", "nlm", "nih", "gov">>,
                    path |-> 11296688], "pmc.ncbi.nlm.nih.gov", {2024}),
       CronArticle([scheme |-> "https", host |-> <<"www", "who", "int">>,
                    path |-> 104662], "who.int", {2024}),
       CronArticle([scheme |-> "https", host |-> <<"pmc", "ncbi", "nlm", "nih", "gov">>,
                    path |-> 8844256], "pmc.ncbi.nlm.nih.gov", {2024}),
       CronArticle([scheme |-> "https", host |-> <<"pmc", "ncbi", "nlm", "nih", "gov">>,
                    path |-> 8446884], "pmc.ncbi.nlm.nih.gov", {2024}),
       CronArticle([scheme |-> "https", host |-> <<"pmc", "ncbi", "nlm", "nih", "gov">>,
                    path |-> 9666052], "pmc.ncbi.nlm.nih.gov", {2024}) >>

\* what searchPubMed resolves to: up to MaxCron articles, or [] on a
\* network error, a non-2xx status or an empty id list
PubMedAnswers ==
    UNION { [1..n -> {CronArticle(PubMedUrl(uid), "pubmed.ncbi.nlm.nih.gov", {})
                        : uid \in 1..2}] : n \in 0..MaxCron }

\* what searchEuropePMC resolves to; publicationDate is item.pubYear as it
\* came
EuropePmcAnswers ==
    UNION { [1..n -> {CronArticle(EuropePmcUrl(id), "europepmc.org", {year})
                        : id \in 1..2, year \in {2016, 2025}}] : n \in 0..MaxCron }

\* for (const article of list) if (!seenUrls.has(article.url)) { add; push }
RECURSIVE pushUnseen(_, _)
pushUnseen(allArticles, list) ==
    IF list = <<>> THEN allArticles
    ELSE pushUnseen(IF Head(list).url \in UrlsOf(allArticles) THEN allArticles
                    ELSE Append(allArticles, Head(list)),
                    Tail(list))

\* a JSON answer: the http status and the fields of the body ({} : absent)
JsonResponse(httpStatus, success, count, message, error, articles) ==
    [httpStatus |-> httpStatus, success |-> success, count |-> count,
     message |-> message, error |-> error, articles |-> articles]

CronStart ==
    /\ cronPc = "idle"
    /\ cronPc' = "pubmed"
    /\ UNCHANGED <<cronArticles, cronResponse>>
    /\ UNCHANGED <<storeVars, aggVars, pureVars, status, mailVars, concVars>>

\* await searchPubMed(...), then the loop over its articles
CronPubMed ==
    /\ cronPc = "pubmed"
    /\ \E pubmedArticles \in PubMedAnswers :
          cronArticles' = pushUnseen(cronArticles, pubmedArticles)
    /\ cronPc' = "epmc"
    /\ UNCHANGED cronResponse
    /\ UNCHANGED <<storeVars, aggVars, pureVars, status, mailVars, concVars>>

\* await searchEuropePMC(...), then the loop over its articles
CronEuropePMC ==
    /\ cronPc = "epmc"
    /\ \E europeArticles \in EuropePmcAnswers :
          cronArticles' = pushUnseen(cronArticles, europeArticles)
    /\ cronPc' = "curated"
    /\ UNCHANGED cronResponse
    /\ UNCHANGED <<storeVars, aggVars, pureVars, status, mailVars, concVars>>

\* the curated articles are added and the route answers
\* { success: true, articlesCount, articles, timestamp }
CronRespond ==
    /\ cronPc = "curated"
    /\ cronArticles' = pushUnseen(cronArticles, CURATED_ARTICLES)
    /\ cronResponse' = << JsonResponse(200, {TRUE}, {Len(cronArticles')}, {}, {},
                                       cronArticles') >>
    /\ cronPc' = "done"
    /\ UNCHANGED <<storeVars, aggVars, pureVars, status, mailVars, concVars>>

\* an error inside the try block reaches the catch:
\* NextResponse.json({ error: 'Search failed' }, { status: 500 })
CronThrow ==
    /\ cronPc \in {"pubmed", "epmc", "curated"}
    /\ cronResponse' = << JsonResponse(500, {}, {}, {}, {"Search failed"}, <<>>) >>
    /\ cronPc' = "done"
    /\ UNCHANGED cronArticles
    /\ UNCHANGED <<storeVars, aggVars, pureVars, status, mailVars, concVars>>

CronNext ==
    \/ CronStart
    \/ CronPubMed
    \/ CronEuropePMC
    \/ CronRespond
    \/ CronThrow

(***************************************************************************)
(* POST of the send-email route: one request                               *)
(***************************************************************************)
ADMIN_EMAIL == "rui.cenoura@gmail.com"

Addresses == {ADMIN_EMAIL, "ana@example.org", "joao@example.org"}

\* the body handleSendEmail of the dashboard posts: the articles on screen,
\* recipient (one address) and mode; no recipients field
DashboardRequest(n, address, apiKey) ==
    [articles |-> n, recipients |-> <<>>, recipient |-> {address}, apiKey |-> apiKey]

\* a body with a recipients field (<<list>>) or without one (<<>>)
ListRequest(n, recipients, apiKey) ==
    [articles |-> n, recipients |-> recipients, recipient |-> {}, apiKey |-> apiKey]

RecipientLists == UNION {[1..n -> Addresses] : n \in 0..MaxRecipients}

MailRequests ==
    {DashboardRequest(n, address, apiKey) :
        n \in {0, 2}, address \in Addresses, apiKey \in BOOLEAN}
    \cup {ListRequest(n, recipients, apiKey) :
             n \in {0, 2}, recipients \in {<<>>} \cup {<<l>> : l \in RecipientLists},
             apiKey \in BOOLEAN}

\* body.recipients || [ADMIN_EMAIL], then the admin put in front if the list
\* does not include it
recipientsOf(body) ==
    LET recipients == IF body.recipients = <<>> THEN <<ADMIN_EMAIL>>
                      ELSE body.recipients[1]
    IN IF ADMIN_EMAIL \in SeqRange(recipients) THEN recipients
       ELSE <<ADMIN_EMAIL>> \o recipients

successCount(sendResults) == Len(SelectSeq(sendResults, LAMBDA r : r.success))

failCount(sendResults) == Len(SelectSeq(sendResults, LAMBDA r : ~r.success))

dispatchSucceeded_all(sendResults) == failCount(sendResults) = 0

\* if (successCount > 0)
dispatchSucceeded(sendResults) == successCount(sendResults) > 0

\* the body the route answers with; the counts are in the success body only
MailResponse(success, sendResults, counts) ==
    [success |-> success, results |-> sendResults, counts |-> counts]

MailInit ==
    /\ mailPc = "idle"
    /\ mailRequest \in MailRequests
    /\ mailRecipients = <<>>
    /\ mailResults = <<>>
    /\ mailCalls = <<>>
    /\ mailResponse = <<>>

\* POST up to the loop: the early answers for an empty article list and for
\* a missing BREVO_API_KEY
MailPost ==
    /\ mailPc = "idle"
    /\ IF mailRequest.articles = 0
       THEN /\ mailResponse' = <<MailResponse(FALSE, <<>>, <<>>)>>
            /\ mailPc' = "done"
            /\ UNCHANGED mailRecipients
       ELSE /\ mailRecipients' = recipientsOf(mailRequest)
            /\ IF ~mailRequest.apiKey
               THEN /\ mailResponse' = <<MailResponse(FALSE, <<>>, <<>>)>>
                    /\ mailPc' = "done"
               ELSE /\ mailPc' = "loop"
                    /\ UNCHANGED mailResponse
    /\ UNCHANGED <<mailRequest, mailResults, mailCalls>>
    /\ UNCHANGED <<storeVars, aggVars, pureVars, status, cronVars, concVars>>

\* one turn of for (const recipient of recipients): sendTransacEmail
\* resolves or throws, and either way a result is pushed
MailSendOne ==
    /\ mailPc = "loop"
    /\ Len(mailResults) < Len(mailRecipients)
    /\ LET recipient == mailRecipients[Len(mailResults) + 1] IN
         \E ok \in BOOLEAN :
            /\ mailCalls' = Append(mailCalls, [to |-> recipient, ok |-> ok])
            /\ mailResults' = Append(mailResults, [email |-> recipient, success |-> ok])
    /\ UNCHANGED <<mailPc, mailRequest, mailRecipients, mailResponse>>
    /\ UNCHANGED <<storeVars, aggVars, pureVars, status, cronVars, concVars>>

\* after the loop: the success body with the counts, or the failure body
MailFinish ==
    /\ mailPc = "loop"
    /\ Len(mailResults) = Len(mailRecipients)
    /\ mailResponse' =
          IF dispatchSucceeded(mailResults)
          THEN <<MailResponse(TRUE, mailResults,
                              <<[successCount |-> successCount(mailResults),
                                 failCount |-> failCount(mailResults)]>>)>>
          ELSE <<MailResponse(FALSE, mailResults, <<>>)>>
    /\ mailPc' = "done"
    /\ UNCHANGED <<mailRequest, mailRecipients, mailResults, mailCalls>>
    /\ UNCHANGED <<storeVars, aggVars, pureVars, status, cronVars, concVars>>

MailNext ==
    \/ MailPost
    \/ MailSendOne
    \/ MailFinish

(***************************************************************************)
(* Two triggers of one process calling saveSearchResults                   *)
(*                                                                         *)
(* The call is followed statement by statement: readArticlesData and the   *)
(* merge, writeLastSearchData, writeArticlesData.  The body is synchronous *)
(* (fs.*Sync, no await), and the process runs its JavaScript on one        *)
(* thread: a call that has begun holds the thread until it returns.        *)
(***************************************************************************)
Triggers == {"scheduled", "manual"}

\* a call not yet made
Queued(articles, articlesFileOk, lastSearchFileOk) ==
    [pc |-> "queued", input |-> articles, articlesFileOk |-> articlesFileOk,
     lastSearchFileOk |-> lastSearchFileOk, limitedArticles |-> <<>>]

\* the store as the four places that hold it
StoreState(mem, disk, memLast, diskLast) ==
    [mem |-> mem, disk |-> disk, memLast |-> memLast, diskLast |-> diskLast]

ConcInit ==
    /\ tasks \in [Triggers -> {Queued(l, a, b) : l \in RunInputs(0), a, b \in BOOLEAN}]
    /\ running = "none"
    /\ started = <<>>
    /\ before = <<StoreState(memArticles, diskArticles, memLastSearch, diskLastSearch)>>

\* saveSearchResults as one call on a store: the store it leaves
saveSearchResults(s, articles, articlesFileOk, lastSearchFileOk, t) ==
    LET existingData == readArticlesData(s.mem, s.disk, t, articlesFileOk)
        limited == limitedArticles(articles, existingData.articles, t)
        wl == writeLastSearchData(LastSearchOf(articles, t), s.diskLast, lastSearchFileOk)
        wa == writeArticlesData(limited, existingData.disk, articlesFileOk)
    IN StoreState(wa.mem, wa.disk, wl.mem, wl.disk)

CanRun_preempted(i) == TRUE

\* a synchronous call is not preempted: another call begins, or goes on,
\* only while no call holds the thread
CanRun(i) == running \in {"none", i}

\* const existingData = readArticlesData(); ... const limitedArticles = ...
SaveRead(i) ==
    LET existingData == readArticlesData(memArticles, diskArticles, now,
                                         tasks[i].articlesFileOk)
    IN
      /\ tasks[i].pc = "queued"
      /\ CanRun(i)
      /\ running' = i
      /\ started' = Append(started, i)
      /\ memArticles' = existingData.mem
      /\ diskArticles' = existingData.disk
      /\ tasks' = [tasks EXCEPT ![i].pc = "writeLastSearch",
                                ![i].limitedArticles =
                                    limitedArticles(tasks[i].input, existingData.articles, now)]
      /\ writes' = writes + 1
      /\ UNCHANGED <<now, memLastSearch, diskLastSearch, recorded, ret, before>>
      /\ UNCHANGED <<aggVars, pureVars, status, cronVars, mailVars>>

\* writeLastSearchData({...})
SaveWriteLastSearch(i) ==
    LET wl == writeLastSearchData(LastSearchOf(tasks[i].input, now), diskLastSearch,
                                  tasks[i].lastSearchFileOk)
    IN
      /\ tasks[i].pc = "writeLastSearch"
      /\ CanRun(i)
      /\ memLastSearch' = wl.mem
      /\ diskLastSearch' = wl.disk
      /\ recorded' = {now}
      /\ tasks' = [tasks EXCEPT ![i].pc = "writeArticles"]
      /\ UNCHANGED <<now, memArticles, diskArticles, writes, ret, running, started, before>>
      /\ UNCHANGED <<aggVars, pureVars, status, cronVars, mailVars>>

\* writeArticlesData({...}), and the call returns
SaveWriteArticles(i) ==
    LET wa == writeArticlesData(tasks[i].limitedArticles, diskArticles,
                                tasks[i].articlesFileOk)
    IN
      /\ tasks[i].pc = "writeArticles"
      /\ CanRun(i)
      /\ memArticles' = wa.mem
      /\ diskArticles' = wa.disk
      /\ tasks' = [tasks EXCEPT ![i].pc = "done"]
      /\ running' = IF running = i THEN "none" ELSE running
      /\ UNCHANGED <<now, memLastSearch, diskLastSearch, recorded, writes, ret, started, before>>
      /\ UNCHANGED <<aggVars, pureVars, status, cronVars, mailVars>>

ConcNext ==
    \E i \in Triggers :
       \/ SaveRead(i)
       \/ SaveWriteLastSearch(i)
       \/ SaveWriteArticles(i)

(***************************************************************************)
(* Array.prototype.sort and performSearch on their own inputs              *)
(***************************************************************************)
RankKey(score, pt, cit, year) ==
    [relevanceScore |-> score, isPortuguese |-> pt, citationCount |-> cit, year |-> year]

\* the sort keys of the papers handed to the sort: counts undefined, 0 and
\* positive, years present and missing, one Portuguese paper, one higher score
RankKeys ==
    { RankKey(1, FALSE, {}, {2024}), RankKey(1, FALSE, {1}, {2025}),
      RankKey(1, FALSE, {2}, {}), RankKey(1, FALSE, {0}, {2025}),
      RankKey(1, FALSE, {1}, {2024}), RankKey(1, TRUE, {}, {2024}),
      RankKey(2, FALSE, {}, {2024}) }

\* the i-th paper of the array: only Semantic Scholar sets a citation count
RankPaper(key, i) ==
    [url |-> Doi(i),
     source |-> IF key.citationCount = {} THEN "Europe PMC" ELSE "Semantic Scholar",
     title |-> Untitled, abstract |-> NoAbstract, year |-> key.year,
     isPortuguese |-> key.isPortuguese, citationCount |-> key.citationCount,
     relevanceScore |-> {key.relevanceScore}, dateFound |-> {}, expiresAt |-> {}]

RankInit ==
    /\ \E n \in 2..MaxRank : \E keys \in [1..n -> RankKeys] :
          unranked = [i \in 1..n |-> RankPaper(keys[i], i)]
    /\ ranked = [by |-> "none", papers |-> <<>>]
    /\ webResults = <<>>
    /\ performSearchRet = <<>>

\* scoredResults.sort(...) of searchAll
SearchAllSort ==
    /\ ranked.by = "none"
    /\ unranked # <<>>
    /\ ranked' = [by |-> "searchAll", papers |-> searchAllSort(unranked)]
    /\ UNCHANGED <<unranked, webResults, performSearchRet>>
    /\ UNCHANGED <<storeVars, aggVars, svcVars>>

\* uniquePapers.sort(...) of POST
PostSort ==
    /\ ranked.by = "none"
    /\ unranked # <<>>
    /\ ranked' = [by |-> "post", papers |-> postSort(unranked)]
    /\ UNCHANGED <<unranked, webResults, performSearchRet>>
    /\ UNCHANGED <<storeVars, aggVars, svcVars>>

RankNext ==
    \/ SearchAllSort
    \/ PostSort

\* what web_search may answer: trusted hosts, a subdomain, a www host, a
\* host with a www label inside, an unknown host, a string that is no url
WebUrls ==
    { [scheme |-> "https", host |-> <<"who", "int">>, path |-> 1],
      [scheme |-> "https", host |-> <<"www", "who", "int">>, path |-> 2],
      [scheme |-> "https", host |-> <<"data", "who", "int">>, path |-> 3],
      [scheme |-> "https", host |-> <<"nature", "www", "com">>, path |-> 4],
      [scheme |-> "https", host |-> <<"evil", "com">>, path |-> 5],
      NotAUrl }

WebAnswers ==
    UNION {[1..n -> {[url |-> u] : u \in WebUrls}] : n \in 0..MaxItems}

WebInit ==
    /\ unranked = <<>>
    /\ ranked = [by |-> "none", papers |-> <<>>]
    /\ webResults \in [1..NumWebQueries -> WebAnswers]
    /\ performSearchRet = <<>>

PerformSearch ==
    /\ webResults # <<>>
    /\ performSearchRet = <<>>
    /\ \E zaiOk \in BOOLEAN :
          performSearchRet' = <<performSearch(webResults, zaiOk, now)>>
    /\ UNCHANGED <<unranked, ranked, webResults>>
    /\ UNCHANGED <<storeVars, aggVars, svcVars>>

(***************************************************************************)
(* Specifications                                                          *)
(***************************************************************************)
\* no array being sorted, no performSearch under way
PureIdle ==
    /\ unranked = <<>>
    /\ ranked = [by |-> "none", papers |-> <<>>]
    /\ webResults = <<>>
    /\ performSearchRet = <<>>

\* no status query answered yet
StatusIdle == status = <<>>

\* the scheduled route not called
CronIdle ==
    /\ cronPc = "idle"
    /\ cronArticles = <<>>
    /\ cronResponse = <<>>

\* the send-email route not called
NoRequest == [articles |-> 0, recipients |-> <<>>, recipient |-> {}, apiKey |-> FALSE]

MailIdle ==
    /\ mailPc = "idle"
    /\ mailRequest = NoRequest
    /\ mailRecipients = <<>>
    /\ mailResults = <<>>
    /\ mailCalls = <<>>
    /\ mailResponse = <<>>

\* no trigger calling saveSearchResults
ConcIdle ==
    /\ tasks = [i \in Triggers |-> Queued(<<>>, FALSE, FALSE)]
    /\ running = "none"
    /\ started = <<>>
    /\ before = <<>>

\* the other routes at rest
SvcIdle == StatusIdle /\ CronIdle /\ MailIdle /\ ConcIdle

\* the store of one process, the routes at rest
Init == StoreInit /\ AggInit /\ PureIdle /\ SvcIdle

Spec == Init /\ [][StoreNext]_vars

\* the store with its status route
StatusSpec == Init /\ [][StatusNext]_vars

\* one request to the research route, the store untouched
StoreIdle ==
    /\ now = 0
    /\ memArticles = <<>>
    /\ memLastSearch = <<>>
    /\ diskArticles = <<>>
    /\ diskLastSearch = <<>>
    /\ recorded = {}
    /\ writes = 0
    /\ ret = NoCall

AggStart == StoreIdle /\ AggInit /\ PureIdle /\ SvcIdle

AggSpec == AggStart /\ [][AggNext]_vars

\* one request to the research route that may fail as a whole, over a store
\* that holds two valid articles saved at time 0
StorePersisted ==
    /\ now = 0
    /\ memArticles = <<>>
    /\ memLastSearch = <<>>
    /\ diskArticles = <<MapAddExpiration(RunArticles(<<1, 2>>, 0, {0}), 0)>>
    /\ diskLastSearch = <<LastSearchOf(RunArticles(<<1, 2>>, 0, {0}), 0)>>
    /\ recorded = {0}
    /\ writes = 0
    /\ ret = NoCall

AggFailStart == StorePersisted /\ AggInit /\ PureIdle /\ SvcIdle

AggFailNext ==
    \/ AggNext
    \/ Throw

AggFailSpec == AggFailStart /\ [][AggFailNext]_vars

\* Array.prototype.sort with the comparators of the route, on its own
RankStart == StoreIdle /\ AggInit /\ RankInit /\ SvcIdle

RankSpec == RankStart /\ [][RankNext]_vars

\* performSearch on its own
WebStart == StoreIdle /\ AggInit /\ WebInit /\ SvcIdle

WebSpec == WebStart /\ [][PerformSearch]_vars

\* one request to the scheduled route
CronBegin == StoreIdle /\ AggInit /\ PureIdle /\ SvcIdle

CronSpec == CronBegin /\ [][CronNext]_vars

\* one request to the send-email route
MailBegin ==
    StoreIdle /\ AggInit /\ PureIdle /\ StatusIdle /\ CronIdle /\ ConcIdle /\ MailInit

MailSpec == MailBegin /\ [][MailNext]_vars

\* two triggers of one process saving at time 0, over whatever the files hold
ConcBegin ==
    StoreInit /\ AggInit /\ PureIdle /\ StatusIdle /\ CronIdle /\ MailIdle /\ ConcInit

ConcSpec == ConcBegin /\ [][ConcNext]_vars

(***************************************************************************)
(* Properties of the lifecycle store (specification Spec)                  *)
(***************************************************************************)
IsLegacy(a) == a.expiresAt = {}

IsExpiredAt(a, t) == \E e \in a.expiresAt : e <= t

\* what the store holds that is neither legacy nor expired, cut at the cap:
\* the "surviving existing set" of a collection at time t
Surviving(collection, t) ==
    Take(SelectSeq(collection, LAMBDA a : ~IsLegacy(a) /\ ~IsExpiredAt(a, t)),
         MAX_ARTICLES)

\* C1 - Cap invariant: whatever saveSearchResults calls, direct writes,
\* reads and time steps came before, readArticlesData never returns more
\* than MAX_ARTICLES articles.
C1_CapInvariant ==
    ret.op = "loadAll" => Len(ret.articles) <= MAX_ARTICLES

\* a read that returned MAX_ARTICLES articles from a cache holding more
C1_Witness ==
    /\ ret.op = "loadAll"
    /\ Len(ret.articles) = MAX_ARTICLES
    /\ Len(SelectSeq(memArticles, LAMBDA a : ~IsLegacy(a) /\ ~IsExpiredAt(a, now)))
         > MAX_ARTICLES

\* C2 - Expiration: no article whose expiresAt is at or before the current
\* time is in what readArticlesData returns, from the cache or from the file.
C2_Expiration ==
    ret.op = "loadAll" =>
        \A i \in 1..Len(ret.articles) : ~IsExpiredAt(ret.articles[i], now)

\* a read that returned articles while the cache held one expiring right now
C2_Witness ==
    /\ ret.op = "loadAll"
    /\ ret.articles # <<>>
    /\ \E i \in 1..Len(memArticles) : memArticles[i].expiresAt = {now}

\* C3 - URL uniqueness: after saveSearchResults, no two articles of the
\* persisted collection share a url, also when the list passed in holds the
\* same url twice.
C3_UrlUniqueness ==
    ret.op = "save" =>
        /\ NoDuplicateUrls(memArticles)
        /\ \A i \in 1..Len(diskArticles) : NoDuplicateUrls(diskArticles[i])

\* C4 - Legacy purge: a record without expiresAt is never returned by
\* readArticlesData, and the collection saveSearchResults writes (the cache,
\* and the file when the write goes through) holds none.
C4_LegacyPurge ==
    /\ ret.op = "loadAll" =>
          \A i \in 1..Len(ret.articles) : ~IsLegacy(ret.articles[i])
    /\ ret.op = "save" =>
          /\ \A i \in 1..Len(memArticles) : ~IsLegacy(memArticles[i])
          /\ ret.value => /\ diskArticles # <<>>
                          /\ \A i \in 1..Len(diskArticles[1]) :
                                 ~IsLegacy(diskArticles[1][i])

\* a save, written through, over a collection that held a legacy record
C4_Witness ==
    /\ ret.op = "save"
    /\ ret.value
    /\ \E i \in 1..Len(ret.existing) : IsLegacy(ret.existing[i])

\* the articles of the input whose url the surviving set does not hold
NewOnes(input, surviving) ==
    SelectSeq(input, LAMBDA a : a.url \notin UrlsOf(surviving))

SameButExpiry(a, b) ==
    /\ a.url = b.url /\ a.id = b.id /\ a.dateFound = b.dateFound
    /\ a.source = b.source

\* the list saveSearchResults persisted is: the new ones in input order,
\* then the surviving existing ones unchanged, cut at MAX_ARTICLES
SavePersists ==
    ret.op = "save" =>
        LET surviving == Surviving(ret.existing, now)
            new == NewOnes(ret.input, surviving)
            n == Min(Len(new) + Len(surviving), MAX_ARTICLES)
        IN /\ Len(memArticles) = n
           /\ \A i \in 1..n :
                 IF i <= Len(new) THEN SameButExpiry(memArticles[i], new[i])
                 ELSE memArticles[i] = surviving[i - Len(new)]
           /\ ret.value => diskArticles = <<memArticles>>

\* a run of articles found now (or undated), bringing k new pairwise
\* distinct urls, to a store that holds MAX_ARTICLES valid articles
FullStoreRun(r, t) ==
    LET surviving == Surviving(r.existing, t)
        new == NewOnes(r.input, surviving)
    IN /\ r.op = "save"
       /\ Len(surviving) = MAX_ARTICLES
       /\ new # <<>>
       /\ NoDuplicateUrls(new)
       /\ \A i \in 1..Len(r.input) : r.input[i].dateFound \in {{}, {t}}

\* readArticlesData right after such a save: MAX_ARTICLES articles, the k
\* new ones, and the first MAX_ARTICLES - k old ones as they were
LoadAfterSave ==
    (FullStoreRun(ret, now) /\ ret'.op = "loadAll") =>
        LET surviving == Surviving(ret.existing, now)
            new == NewOnes(ret.input, surviving)
            k == Len(new)
            loaded == ret'.articles
        IN /\ Len(loaded) = MAX_ARTICLES
           /\ UrlsOf(new) \subseteq UrlsOf(loaded)
           /\ \A i \in 1..MAX_ARTICLES :
                 IF i <= MAX_ARTICLES - k
                 THEN \E j \in 1..Len(loaded) : loaded[j] = surviving[i]
                 ELSE surviving[i].url \notin UrlsOf(loaded)

C10_NeedsSearch ==
    ret.op = "needsSearch" =>
        (ret.value <=> (recorded = {} \/ \E ts \in recorded : now - ts > 7))

\* asked exactly 7 days after a save of an empty list: still false
C10_Witness ==
    /\ ret.op = "needsSearch"
    /\ ~ret.value
    /\ recorded = {now - 7}
    /\ memLastSearch # <<>>
    /\ memLastSearch[1].articlesFound = 0
    /\ writes > 0

\* C12 - LastSearchRecord update: after saveSearchResults at time t the
\* record holds lastSearchTimestamp = t, nextScheduledSearch = t + 7 days,
\* articlesFound = the length of the list passed in (not of what was stored)
\* and sourcesSearched = the distinct sources of the list passed in.
C12_LastSearchRecord ==
    ret.op = "save" =>
        /\ memLastSearch # <<>>
        /\ LET record == memLastSearch[1]
           IN /\ record.lastSearchTimestamp = {now}
              /\ record.nextScheduledSearch = {now + 7}
              /\ record.articlesFound = Len(ret.input)
              /\ SeqRange(record.sourcesSearched)
                    = {ret.input[i].source : i \in 1..Len(ret.input)}
              /\ Len(record.sourcesSearched)
                    = Cardinality(SeqRange(record.sourcesSearched))
              /\ readLastSearchData(memLastSearch, diskLastSearch).data = record

\* a run of NumExtra + 1 articles from two sources, one of them a duplicate
\* of a stored url: articlesFound counts them all
C12_Witness ==
    /\ ret.op = "save"
    /\ Len(ret.input) = NumExtra + 1
    /\ Len(NewOnes(ret.input, Surviving(ret.existing, now))) = NumExtra
    /\ memLastSearch[1].articlesFound = NumExtra + 1
    /\ Len(memLastSearch[1].sourcesSearched) = 2

\* a store write just returned (its file write may have failed) and the next
\* call is a read: the read answers from what the write left in the cache,
\* which is what it would answer had the file been written
AnswersFromMemory ==
    /\ (ret.op \in {"save", "write"} /\ ret'.op = "loadAll") =>
          ret'.articles = Take(filterExpiredArticles(memArticles, now), MAX_ARTICLES)
    /\ (ret.op = "save" /\ ret'.op = "needsSearch") =>
          /\ memLastSearch # <<>>
          /\ ret'.value = needsSearch(memLastSearch[1], now)

\* a store write that reached the file leaves the file equal to the cache
WriteResynchronizes ==
    (ret.op \in {"save", "write"} /\ ret.value) => diskArticles = <<memArticles>>

\* C22 - Persistence failure: after a store write whose file write failed,
\* readArticlesData and needsSearch answer from the cache exactly as if the
\* file had been written, also when the cached list is empty while the file
\* still holds older content; and a write that succeeds makes the file equal
\* to the cache again.
C22_PersistenceFailure == [](WriteResynchronizes) /\ [][AnswersFromMemory]_vars

\* the record readLastSearchData answers with
LastSearchRecord == readLastSearchData(memLastSearch, diskLastSearch).data

\* a status query leaves the LastSearchRecord, its file and the history of
\* searches as they were
StatusIsReadOnly ==
    ret'.op = "status" =>
        /\ LastSearchRecord' = LastSearchRecord
        /\ diskLastSearch' = diskLastSearch
        /\ recorded' = recorded /\ writes' = writes

\* the list a status query answered with is what readArticlesData returns,
\* and as long as the count it reported
StatusListsValidArticles ==
    ret.op = "status" =>
        /\ status[1].weeklyArticles
              = readArticlesData(memArticles, diskArticles, now, TRUE).articles
        /\ Len(status[1].weeklyArticles) = status[1].articlesCount

\* C26 - Status query: it triggers no search and leaves the LastSearchRecord
\* unchanged, and the article list it returns is the currently valid
\* persisted list, the one readArticlesData returns, so that the number of
\* articles listed is the articlesCount reported.
C26_StatusQuery == [](StatusListsValidArticles) /\ [][StatusIsReadOnly]_vars

\* a collection that holds a legacy or an expired entry, or more than the cap
NeedsCleaning(collection, t) ==
    \/ \E i \in 1..Len(collection) :
          IsLegacy(collection[i]) \/ IsExpiredAt(collection[i], t)
    \/ Len(collection) > MAX_ARTICLES

\* C23 - Self-healing read: after a readArticlesData during which the file
\* could be written, articles.json holds no expired, legacy or over-cap
\* entry: what needed cleaning was replaced by the cleaned set within the
\* call, whether the cache was populated or not.
C23_SelfHealingRead ==
    (ret.op = "loadAll" /\ ret.value /\ diskArticles # <<>>) =>
        ~NeedsCleaning(diskArticles[1], now)

\* expiresAt is there and is dateFound + the retention window
ExpiryFollowsDateFound(a) ==
    /\ a.expiresAt # {}
    /\ a.dateFound # {}
    /\ a.expiresAt = {Val(a.dateFound) + ARTICLE_EXPIRATION_DAYS}

\* C27 - Expiry field invariant: every article of the collection
\* saveSearchResults persisted has an expiresAt, equal to its dateFound plus
\* ARTICLE_EXPIRATION_DAYS and so later than its dateFound, whatever
\* dateFound the incoming article carried.
C27_ExpiryField ==
    ret.op = "save" =>
        \A i \in 1..Len(memArticles) : ExpiryFollowsDateFound(memArticles[i])

(***************************************************************************)
(* Properties of the aggregation (specification AggSpec)                  *)
(***************************************************************************)
\* a searchAll has returned and nothing of its fan-out has been reset yet
Collected == pc = "loop" /\ q > 1

\* the trust and relevance filter of searchAll
Accepted(paper) ==
    ~isFakeSite(paper.url) /\ isRelevantArticle(paper.title, paper.abstract)

\* what adapter a hands over when its source answers
Contribution(a) == Fetch(a, Payload(a))

AdapterOf(paper) == CHOOSE a \in Adapters : SourceName(a) = paper.source

CanProceed ==
    \/ pc = "loop"
    \/ pc = "await" /\ \E a \in Adapters : call[a] = "pending"
    \/ pc = "await" /\ \A a \in Adapters : call[a] \in {"ok", "failed"}

\* C7 - Bounded source calls: every call of a source ends, by its answer or
\* by a timeout, so a request that is not answered yet is never left with
\* nothing to wait for but a source that stays silent: it can always
\* proceed, and so completes.
C7_RunCompletes == pc # "done" => CanProceed

\* C8 as claimed - when two adapters return the same url, the article kept
\* is the one of the earlier adapter in the order Europe PMC, Semantic
\* Scholar, PubMed, DOAJ.
C8_EarlierAdapterWins ==
    Collected =>
        \A i \in 1..Len(found) : \A a \in Adapters :
            Position(a) < Position(AdapterOf(found[i])) =>
                found[i].url \notin UrlsOf(results[a])

\* C8 - Deterministic merge order: whichever promise settles first, the
\* article kept for a url is a copy its own adapter returned, and no earlier
\* adapter in the order Europe PMC, Semantic Scholar, PubMed, DOAJ returned
\* a copy of that url that passes the filter.
C8_MergeOrder ==
    Collected =>
        \A i \in 1..Len(found) :
            /\ \E j \in 1..Len(results[AdapterOf(found[i])]) :
                  [found[i] EXCEPT !.relevanceScore = {}] = results[AdapterOf(found[i])][j]
            /\ \A a \in Adapters :
                  Position(a) < Position(AdapterOf(found[i])) =>
                      \A j \in 1..Len(results[a]) :
                          results[a][j].url = found[i].url => ~Accepted(results[a][j])

\* Semantic Scholar settled first, Europe PMC later; both returned url 1 in
\* an acceptable copy, and the copy kept is Europe PMC's
C8_Witness ==
    /\ Collected
    /\ firstSettled = <<"semantic">>
    /\ call["epmc"] = "ok"
    /\ \E j \in 1..Len(results["semantic"]) :
          results["semantic"][j].url = Doi(1) /\ Accepted(results["semantic"][j])
    /\ \E i \in 1..Len(found) : found[i].url = Doi(1) /\ found[i].source = "Europe PMC"

\* the position of the first element of input that has this url
FirstIndex(input, url) ==
    CHOOSE k \in 1..Len(input) :
        input[k].url = url /\ \A j \in 1..(k - 1) : input[j].url # url

\* s keeps, in order, exactly the first copy of every url of input
FirstOccurrences(s, input) ==
    /\ NoDuplicateUrls(s)
    /\ UrlsOf(s) = UrlsOf(input)
    /\ LET first == [i \in 1..Len(s) |-> FirstIndex(input, s[i].url)]
       IN /\ \A i \in 1..Len(s) : input[first[i]] = s[i]
          /\ \A i \in 1..(Len(s) - 1) : first[i] < first[i + 1]

\* C9 - Deduplication: on every list the pipeline deduplicates (the merged
\* results of a query once its four promises are settled, filtered; the
\* papers of all queries), the output keeps exactly the first accepted copy
\* of each url, in the order of the input, and deduplicating the output
\* again changes nothing.
C9_Deduplication ==
    /\ (\A a \in Adapters : call[a] \in {"ok", "failed"}) =>
          LET input == allResults(results, firstSettled)
              output == uniqueResults(input, {})
          IN /\ FirstOccurrences(output, SelectSeq(input, Accepted))
             /\ uniqueResults(output, {}) = output
    /\ pc # "await" =>
          LET output == uniquePapers(allPapers, {})
          IN /\ FirstOccurrences(output, allPapers)
             /\ uniquePapers(output, {}) = output
             /\ pc = "done" => UrlsOf(response[1].weeklyArticles) = UrlsOf(output)

\* the request is answered, and the papers of its queries held some url in
\* two different copies
C9_Witness ==
    /\ pc = "done"
    /\ \E i, j \in 1..Len(allPapers) :
          /\ i < j
          /\ allPapers[i].url = allPapers[j].url
          /\ allPapers[i].source # allPapers[j].source

\* C11 - Every aggregation run ends by merging its result into the store:
\* once the request is answered, the LastSearchRecord carries the time of
\* the run and needsSearch is false, also when no adapter returned anything.
C11_RunUpdatesStore ==
    (pc = "done" /\ response[1].success) =>
        /\ memLastSearch # <<>>
        /\ memLastSearch[1].lastSearchTimestamp = {now}
        /\ ~needsSearch(readLastSearchData(memLastSearch, diskLastSearch).data, now)

\* C13 - The list the run returns is in descending order of relevanceScore:
\* no article comes after one with a strictly lower score.
C13_ScoreOrder ==
    pc = "done" =>
        LET returned == response[1].weeklyArticles
        IN \A i, j \in 1..Len(returned) :
              i < j => Val(returned[i].relevanceScore) >= Val(returned[j].relevanceScore)

\* the configured keywords that occur in title + abstract, lower-cased
KeywordsIn(paper) ==
    LET text == toLowerCase(paper.title \o paper.abstract)
    IN {k \in RELEVANT_KEYWORDS : includes(text, k)}

\* C17 - Relevance gate and score: every article searchAll returns to the
\* loop, and every article of the response, holds at least one configured
\* keyword in title + abstract, and its relevanceScore is the number of
\* configured keywords found there, so at least 1.
C17_RelevanceGate ==
    /\ Collected =>
          \A i \in 1..Len(found) :
             LET keywords == KeywordsIn(found[i])
             IN /\ keywords # {}
                /\ found[i].relevanceScore = {Cardinality(keywords)}
                /\ Val(found[i].relevanceScore) >= 1
    /\ \A r \in 1..Len(response) : \A i \in 1..Len(response[r].weeklyArticles) :
          LET keywords == KeywordsIn(response[r].weeklyArticles[i])
          IN /\ keywords # {}
             /\ response[r].weeklyArticles[i].relevanceScore = {Cardinality(keywords)}

\* Europe PMC answered: its article without keyword is not in what searchAll
\* returned, its article with three keywords is, scored 3
C17_Witness ==
    /\ Collected
    /\ \E j \in 1..Len(results["epmc"]) :
          /\ KeywordsIn(results["epmc"][j]) = {}
          /\ \A i \in 1..Len(found) : found[i].url # results["epmc"][j].url
                                        \/ found[i].source # "Europe PMC"
    /\ \E i \in 1..Len(found) :
          found[i].source = "Europe PMC" /\ found[i].relevanceScore = {3}

\* C18 - Validity check: no article whose title has fewer than 10 characters,
\* and none whose url does not start with http, is in the list the run
\* returns.
C18_Validity ==
    pc = "done" =>
        \A i \in 1..Len(response[1].weeklyArticles) :
            LET paper == response[1].weeklyArticles[i]
            IN /\ length(paper.title) >= 10
               /\ paper.url.scheme \in {"http", "https"}

\* C29 - Publication-year window: every article of the list the run returns
\* that has a year has it within MIN_YEAR..CURRENT_YEAR, whichever adapter
\* it came from.
C29_YearWindow ==
    pc = "done" =>
        \A i \in 1..Len(response[1].weeklyArticles) :
            \A y \in response[1].weeklyArticles[i].year :
                y >= MIN_YEAR /\ y <= CURRENT_YEAR

\* C20 - Total search failure: when the run fails as a whole, the response
\* reports the failure and its article list is the persisted (or curated)
\* known-good articles, not an empty list.
C20_FailureFallback ==
    (pc = "done" /\ ~response[1].success) =>
        LET persisted == readArticlesData(memArticles, diskArticles, now, TRUE).articles
        IN /\ response[1].weeklyArticles # <<>>
           /\ UrlsOf(response[1].weeklyArticles) = UrlsOf(persisted)

(***************************************************************************)
(* Properties of the ranking (specification RankSpec)                      *)
(***************************************************************************)
\* a sort of a two-element array: its result is the comparator's verdict
PairRanked == ranked.by # "none" /\ Len(unranked) = 2

SameEarlierTiers(a, b) ==
    a.relevanceScore = b.relevanceScore /\ a.isPortuguese = b.isPortuguese

BothCounted(a, b) == a.citationCount # {} /\ b.citationCount # {}

\* the year as the claim reads it: 0 when there is none
YearOrZero(a) == IF a.year = {} THEN 0 ELSE Val(a.year)

\* C14 - Citation tier: two articles equal in score and Portuguese flag that
\* both have a citation count, 0 included, come out in descending order of
\* the count.
C14_CitationTier ==
    PairRanked =>
        LET a == ranked.papers[1]
            b == ranked.papers[2]
        IN (SameEarlierTiers(a, b) /\ BothCounted(a, b)) =>
               Val(a.citationCount) >= Val(b.citationCount)

\* C15 - Year tie-break: two articles equal in score and Portuguese flag,
\* with equal citation counts or at least one count missing, come out in
\* descending order of the year, a missing year counting as 0.
C15_YearTieBreak ==
    PairRanked =>
        LET a == ranked.papers[1]
            b == ranked.papers[2]
        IN (/\ SameEarlierTiers(a, b)
            /\ \/ ~BothCounted(a, b)
               \/ a.citationCount = b.citationCount) =>
               YearOrZero(a) >= YearOrZero(b)

SameKeys(a, b) ==
    /\ SameEarlierTiers(a, b)
    /\ a.citationCount = b.citationCount
    /\ a.year = b.year

PositionIn(s, paper) == CHOOSE i \in 1..Len(s) : s[i] = paper

\* C16 - Stable ranking: two articles with the same score, flag, citation
\* count and year keep after the sort the relative order they had before.
C16_StableRanking ==
    ranked.by # "none" =>
        \A i, j \in 1..Len(unranked) :
            (i < j /\ SameKeys(unranked[i], unranked[j])) =>
                PositionIn(ranked.papers, unranked[i])
                    < PositionIn(ranked.papers, unranked[j])

\* a sorts before b under the comparefn of the call
Before(kind, a, b) == CallCompare(kind, a, b) < 0

\* C30 - Comparator consistency: on the articles of any array handed to a
\* sort, the comparefn of that call is antisymmetric and transitive: a
\* before b excludes b before a, and a before b with b before c gives a
\* before c, also when some of them lack a citation count.
C30_ComparatorConsistency ==
    ranked.by # "none" =>
        \A i, j, k \in 1..Len(unranked) :
            LET a == unranked[i]
                b == unranked[j]
                c == unranked[k]
            IN /\ Before(ranked.by, a, b) => ~Before(ranked.by, b, a)
               /\ (Before(ranked.by, a, b) /\ Before(ranked.by, b, c)) =>
                      Before(ranked.by, a, c)

(***************************************************************************)
(* Properties of performSearch (specification WebSpec)                     *)
(***************************************************************************)
\* the host is an entry of the list or a subdomain of one
Trusted(url) ==
    /\ url # NotAUrl
    /\ \E source \in REPUTABLE_SOURCES : HostMatches(url.host, source)

\* C19 - Allow-list trust: every article performSearch returns has a url
\* that parses and whose host is an entry of REPUTABLE_SOURCES or a
\* subdomain of one.
C19_AllowList ==
    \A r \in 1..Len(performSearchRet) : \A i \in 1..Len(performSearchRet[r]) :
        Trusted(performSearchRet[r][i].url)

(***************************************************************************)
(* Properties of the scheduled route (specification CronSpec)              *)
(***************************************************************************)
\* the answer says whether the run succeeded (a success field, or an http
\* status that is not 200), how many articles it has, and a message (or an
\* error text)
StructuredResult(r) ==
    /\ r.success # {} \/ r.httpStatus # 200
    /\ r.count # {}
    /\ r.message # {} \/ r.error # {}

\* C21 - On every path, successful or failing, the scheduled trigger
\* answers with a structured result: a success/failure indication, an
\* article count and a message.
C21_StructuredResult ==
    cronPc = "done" => StructuredResult(cronResponse[1])

(***************************************************************************)
(* Properties of the send-email route (specification MailSpec)             *)
(***************************************************************************)
\* the route went through its loop and answered
Dispatched == mailPc = "done" /\ mailRequest.apiKey /\ mailRequest.articles > 0

\* C25 - Email dispatch outcome: with a provider configured, every entry of
\* the recipients list is attempted exactly once, in order, also after
\* earlier ones failed; one result is reported per recipient, with the
\* provider's verdict; the dispatch reports success exactly when at least
\* one recipient succeeded, and then successCount + failCount is the number
\* of recipients.
C25_DispatchOutcome ==
    Dispatched =>
        LET n == Len(mailRecipients)
            answer == mailResponse[1]
        IN /\ n >= 1
           /\ Len(mailCalls) = n
           /\ Len(answer.results) = n
           /\ \A i \in 1..n :
                 /\ mailCalls[i].to = mailRecipients[i]
                 /\ answer.results[i].email = mailRecipients[i]
                 /\ answer.results[i].success = mailCalls[i].ok
           /\ answer.success <=> \E i \in 1..n : mailCalls[i].ok
           /\ answer.success =>
                 /\ answer.counts # <<>>
                 /\ answer.counts[1].successCount + answer.counts[1].failCount = n
                 /\ answer.counts[1].successCount
                       = Cardinality({i \in 1..n : mailCalls[i].ok})

\* three recipients, the first failed, the second succeeded, the third
\* failed: a partial success
C25_Witness ==
    /\ Dispatched
    /\ Len(mailRecipients) = 3
    /\ ~mailCalls[1].ok /\ mailCalls[2].ok /\ ~mailCalls[3].ok
    /\ mailResponse[1].success
    /\ mailResponse[1].counts[1].failCount = 2

\* C28 - Individual send: when the dashboard sends the report to the address
\* the user entered, the provider is called for that address and for no
\* other.
C28_IndividualSend ==
    (Dispatched /\ mailRequest.recipient # {}) =>
        /\ mailCalls # <<>>
        /\ \A i \in 1..Len(mailCalls) : mailCalls[i].to \in mailRequest.recipient

(***************************************************************************)
(* Properties of two triggers saving at once (specification ConcSpec)      *)
(***************************************************************************)
\* the store as it is
Store == StoreState(memArticles, diskArticles, memLastSearch, diskLastSearch)

\* the store the two calls leave when one runs after the other has returned
Sequential(first, second) ==
    LET call1 == tasks[first]
        call2 == tasks[second]
        between == saveSearchResults(before[1], call1.input, call1.articlesFileOk,
                                     call1.lastSearchFileOk, now)
    IN saveSearchResults(between, call2.input, call2.articlesFileOk,
                         call2.lastSearchFileOk, now)

InsideCall(i) == tasks[i].pc \in {"writeLastSearch", "writeArticles"}

AllReturned == \A i \in Triggers : tasks[i].pc = "done"

\* C24: two saveSearchResults calls made by two triggers of one process never
\* interleave: at no moment are both between their read of the collection and
\* their write of it; and once both have returned, the cache, the articles
\* file and the last-search record (cached and on file) are what the two
\* calls leave when run one after the other in one of the two orders, each
\* with the same arguments and the same outcomes of its file writes.
C24_SerializedUpdates ==
    /\ \A i, j \in Triggers : InsideCall(i) /\ InsideCall(j) => i = j
    /\ AllReturned =>
          \E first, second \in Triggers :
             first # second /\ Store = Sequential(first, second)

\* both calls have returned, and the list holds an article that only the
\* scheduled trigger brought and one that only the manual trigger brought
C24_Witness ==
    /\ AllReturned
    /\ \E i, j \in Triggers :
          /\ i # j
          /\ UrlsOf(memArticles) \cap (UrlsOf(tasks[i].input) \ UrlsOf(tasks[j].input)) # {}
          /\ UrlsOf(memArticles) \cap (UrlsOf(tasks[j].input) \ UrlsOf(tasks[i].input)) # {}
          /\ diskArticles = <<memArticles>>

====
